---------------------------- MODULE Spec2Model ----------------------------
(***************************************************************************)
(* A model of the static code analyzer (code_analyzer.py and               *)
(* code_analyzer_base.py).  Text is a sequence of one-character strings,   *)
(* an issue is a record, Optional[CodeIssue] is a sequence of at most one  *)
(* issue, and the result of ast.parse is part of a file's description.     *)
(***************************************************************************)
EXTENDS Integers, Sequences, FiniteSets, TLC

VARIABLES
    fs,             \* the file system: path -> [kind, readable, codebase]
    argv_path,      \* main: the positional argument "path"
    exclude_arg,    \* main: the --exclude argument, a sequence of characters
    issue_types,    \* the set of requested checks (filter_issue_types' result)
    path,           \* CodeAnalyzer.path
    codebase,       \* CodeAnalyzer.codebase
    found_issues,   \* CodeAnalyzer.found_issues
    tree,           \* ast_node_analysis: what ast.parse returned
    todo,           \* ast.walk's queue of nodes still to visit
    parent,         \* the parent attribute the traversal has assigned, per node
    checked,        \* nodes check_node has been called on, in call order
    issues,         \* analyze_multi's list of issues
    pending,        \* files os.walk has not yielded yet
    walked,         \* files os.walk has yielded, in order
    stdout,         \* everything printed, in order
    pc,             \* the program's position
    caller,         \* the function that constructed the analyzer
    previous,       \* the list an earlier run on the same input returned
    arg,            \* the argument of a function applied on its own
    ret             \* what that function returned

vars == << fs, argv_path, exclude_arg, issue_types, path, codebase,
           found_issues, tree, todo, parent, checked, issues, pending, walked,
           stdout,
           pc, caller, previous, arg, ret >>

---------------------------------------------------------------------------
(* Text.                                                                   *)

\* The characters str.strip, str.isspace and the regular expressions' \s
\* take for whitespace, among those the model's texts are made of.
Whitespace == {" ", "\t", "\n"}

\* "\n", the line terminator str.splitlines splits at.
Newline == "\n"

RECURSIVE lstrip(_)
lstrip(s) ==
    IF s = << >> THEN << >>
    ELSE IF Head(s) \in Whitespace THEN lstrip(Tail(s)) ELSE s

RECURSIVE rstrip(_)
rstrip(s) ==
    IF s = << >> THEN << >>
    ELSE IF s[Len(s)] \in Whitespace THEN rstrip(SubSeq(s, 1, Len(s) - 1))
    ELSE s

strip(s) == rstrip(lstrip(s))

\* str.isspace: at least one character, and all of them whitespace.
isspace(s) == s # << >> /\ \A i \in 1..Len(s) : s[i] \in Whitespace

\* The positions of character c in s.
Positions(s, c) == {i \in 1..Len(s) : s[i] = c}

Min(S) == CHOOSE x \in S : \A y \in S : x <= y

\* s.split(c): the pieces of s between the occurrences of c.
RECURSIVE split(_, _)
split(s, c) ==
    IF Positions(s, c) = {} THEN << s >>
    ELSE LET i == Min(Positions(s, c))
         IN  << SubSeq(s, 1, i - 1) >> \o split(SubSeq(s, i + 1, Len(s)), c)

\* s.split(c, maxsplit=n): at most n splits, the rest of s in the last piece.
RECURSIVE split_max(_, _, _)
split_max(s, c, n) ==
    IF n = 0 \/ Positions(s, c) = {} THEN << s >>
    ELSE LET i == Min(Positions(s, c))
         IN  << SubSeq(s, 1, i - 1) >>
                 \o split_max(SubSeq(s, i + 1, Len(s)), c, n - 1)

\* str.upper on the letters the model's texts are made of.
UpperChar(c) ==
    CASE c = "a" -> "A"
      [] c = "b" -> "B"
      [] c = "c" -> "C"
      [] c = "d" -> "D"
      [] c = "e" -> "E"
      [] c = "f" -> "F"
      [] c = "g" -> "G"
      [] c = "h" -> "H"
      [] c = "i" -> "I"
      [] c = "j" -> "J"
      [] c = "k" -> "K"
      [] c = "l" -> "L"
      [] c = "m" -> "M"
      [] c = "n" -> "N"
      [] c = "o" -> "O"
      [] c = "p" -> "P"
      [] c = "q" -> "Q"
      [] c = "r" -> "R"
      [] c = "s" -> "S"
      [] c = "t" -> "T"
      [] c = "u" -> "U"
      [] c = "v" -> "V"
      [] c = "w" -> "W"
      [] c = "x" -> "X"
      [] c = "y" -> "Y"
      [] c = "z" -> "Z"
      [] OTHER   -> c

upper(s) == [i \in 1..Len(s) |-> UpperChar(s[i])]

\* sub in s, for strings.
Contains(s, sub) ==
    \E i \in 0..(Len(s) - Len(sub)) : SubSeq(s, i + 1, i + Len(sub)) = sub

endswith(s, suffix) ==
    /\ Len(s) >= Len(suffix)
    /\ SubSeq(s, Len(s) - Len(suffix) + 1, Len(s)) = suffix

\* str.splitlines, for texts whose only line terminator is "\n": a final
\* terminator ends the last line and opens no new one.
RECURSIVE splitlines(_)
splitlines(text) ==
    IF text = << >> THEN << >>
    ELSE IF Positions(text, Newline) = {} THEN << text >>
    ELSE LET i == Min(Positions(text, Newline))
         IN  << SubSeq(text, 1, i - 1) >>
                 \o splitlines(SubSeq(text, i + 1, Len(text)))

---------------------------------------------------------------------------
(* Issue types and issues.                                                 *)

IssueType == {"S001", "S002", "S003", "S004", "S005", "S006",
              "S007", "S008", "S009", "S010", "S011", "S012"}

\* IssueType.name as characters, and the code point of each character.
name_chars(t) ==
    CASE t = "S001" -> << "S", "0", "0", "1" >>
      [] t = "S002" -> << "S", "0", "0", "2" >>
      [] t = "S003" -> << "S", "0", "0", "3" >>
      [] t = "S004" -> << "S", "0", "0", "4" >>
      [] t = "S005" -> << "S", "0", "0", "5" >>
      [] t = "S006" -> << "S", "0", "0", "6" >>
      [] t = "S007" -> << "S", "0", "0", "7" >>
      [] t = "S008" -> << "S", "0", "0", "8" >>
      [] t = "S009" -> << "S", "0", "0", "9" >>
      [] t = "S010" -> << "S", "0", "1", "0" >>
      [] t = "S011" -> << "S", "0", "1", "1" >>
      [] t = "S012" -> << "S", "0", "1", "2" >>

ord(c) ==
    CASE c = "\t" -> 9   [] c = "\n" -> 10  [] c = " " -> 32
      [] c = "#" -> 35   [] c = "," -> 44   [] c = "." -> 46
      [] c = "/" -> 47   [] c = "0" -> 48   [] c = "1" -> 49
      [] c = "2" -> 50   [] c = "3" -> 51   [] c = "4" -> 52
      [] c = "5" -> 53   [] c = "6" -> 54   [] c = "7" -> 55
      [] c = "8" -> 56   [] c = "9" -> 57   [] c = ";" -> 59
      [] c = "=" -> 61   [] c = "A" -> 65   [] c = "B" -> 66
      [] c = "D" -> 68   [] c = "F" -> 70   [] c = "O" -> 79
      [] c = "S" -> 83   [] c = "T" -> 84   [] c = "X" -> 88
      [] c = "_" -> 95   [] c = "a" -> 97   [] c = "b" -> 98
      [] c = "d" -> 100  [] c = "f" -> 102  [] c = "o" -> 111
      [] c = "p" -> 112  [] c = "s" -> 115  [] c = "t" -> 116
      [] c = "x" -> 120  [] c = "y" -> 121

\* a < b for strings: the first differing character decides, a proper
\* prefix is smaller.
RECURSIVE str_less(_, _)
str_less(a, b) ==
    IF b = << >> THEN FALSE
    ELSE IF a = << >> THEN TRUE
    ELSE IF Head(a) # Head(b) THEN ord(Head(a)) < ord(Head(b))
    ELSE str_less(Tail(a), Tail(b))

\* CodeIssue(path, line, type, str_arg); str_arg None is the empty string.
CodeIssue(p, l, t, a) == [path |-> p, line |-> l, type |-> t, str_arg |-> a]

None == << >>

---------------------------------------------------------------------------
(* The line rules, S001 to S005.                                           *)

MAX_LINES == 79

has_inline_comment(line) ==
    LET comment_split == split(line, "#")
    IN  Len(comment_split) > 1 /\ strip(comment_split[1]) # << >>

\* The pair (code, comment).
split_at_comment(line) ==
    IF Positions(line, "#") # {}
    THEN LET split_at_first == split_max(line, "#", 2)
         IN  << split_at_first[1], split_at_first[2] >>
    ELSE << line, << >> >>

long_line(p, line_no, line) ==
    IF Len(line) > MAX_LINES
    THEN << CodeIssue(p, line_no, "S001", None) >> ELSE << >>

indentation(p, line_no, line) ==
    IF ~isspace(line) /\ (Len(line) - Len(lstrip(line))) % 4 # 0
    THEN << CodeIssue(p, line_no, "S002", None) >> ELSE << >>

semicolon(p, line_no, line) ==
    LET code == split_at_comment(line)[1]
    IN  IF endswith(strip(code), << ";" >>)
        THEN << CodeIssue(p, line_no, "S003", None) >> ELSE << >>

\* A rule that asks for one space before the comment.
missing_spaces_one_space(p, line_no, line) ==
    LET code == split_at_comment(line)[1]
    IN  IF has_inline_comment(line) /\ Len(code) - Len(rstrip(code)) < 1
        THEN << CodeIssue(p, line_no, "S004", None) >> ELSE << >>

missing_spaces(p, line_no, line) ==
    LET code == split_at_comment(line)[1]
    IN  IF has_inline_comment(line) /\ Len(code) - Len(rstrip(code)) < 2
        THEN << CodeIssue(p, line_no, "S004", None) >> ELSE << >>

todo_rule(p, line_no, line) ==
    LET comment == split_at_comment(line)[2]
    IN  IF Contains(upper(comment), << "T", "O", "D", "O" >>)
        THEN << CodeIssue(p, line_no, "S005", None) >> ELSE << >>

\* BaseCodeAnalyzer.single_line_analyzer: the rule of each line issue type.
single_line_keys == {"S001", "S002", "S003", "S004", "S005"}

single_line_analyzer(t, p, line_no, line) ==
    CASE t = "S001" -> long_line(p, line_no, line)
      [] t = "S002" -> indentation(p, line_no, line)
      [] t = "S003" -> semicolon(p, line_no, line)
      [] t = "S004" -> missing_spaces(p, line_no, line)
      [] t = "S005" -> todo_rule(p, line_no, line)

---------------------------------------------------------------------------
(* The whole-file rule, S006.                                              *)

\* A loop that does not reset the counter on a line that is not blank.
RECURSIVE blank_lines_no_reset(_, _, _, _)
blank_lines_no_reset(p, lines, i, count_blank) ==
    IF i > Len(lines) THEN << >>
    ELSE IF strip(lines[i]) = << >>
         THEN blank_lines_no_reset(p, lines, i + 1, count_blank + 1)
         ELSE (IF count_blank > 2
               THEN << CodeIssue(p, i, "S006", None) >> ELSE << >>)
              \o blank_lines_no_reset(p, lines, i + 1, count_blank)

\* The loop of blank_lines from line i on, count_blank blank lines having
\* been counted since the last line that was not blank.
RECURSIVE blank_lines_loop(_, _, _, _)
blank_lines_loop(p, lines, i, count_blank) ==
    IF i > Len(lines) THEN << >>
    ELSE IF strip(lines[i]) = << >>
         THEN blank_lines_loop(p, lines, i + 1, count_blank + 1)
         ELSE (IF count_blank > 2
               THEN << CodeIssue(p, i, "S006", None) >> ELSE << >>)
              \o blank_lines_loop(p, lines, i + 1, 0)

blank_lines(p, text) == blank_lines_loop(p, splitlines(text), 1, 0)

bulk_keys == {"S006"}

---------------------------------------------------------------------------
(* The syntax tree and the node rules, S007 to S012.                       *)
(*                                                                         *)
(* ast.parse either raises SyntaxError (ok = FALSE) or returns a tree: a   *)
(* sequence of nodes, node 1 the Module, each node naming its children in  *)
(* the order ast.iter_child_nodes yields them.  A node carries the fields  *)
(* the rules read: source is the text ast.get_source_segment returns for   *)
(* it, args the names of node.args.args, defaults the values of            *)
(* node.args.defaults, targets and value those of an assignment.           *)

UpperChars ==
    {"A", "B", "C", "D", "E", "F", "G", "H", "I", "J", "K", "L", "M", "N",
     "O", "P", "Q", "R", "S", "T", "U", "V", "W", "X", "Y", "Z"}
LowerChars ==
    {"a", "b", "c", "d", "e", "f", "g", "h", "i", "j", "k", "l", "m", "n",
     "o", "p", "q", "r", "s", "t", "u", "v", "w", "x", "y", "z"}
DigitChars == {"0", "1", "2", "3", "4", "5", "6", "7", "8", "9"}
\* \w of the regular expressions.
WordChars  == UpperChars \cup LowerChars \cup DigitChars \cup {"_"}

\* The class objects ast.List, ast.Set, ast.Dict; an instance of a class
\* is another object than the class.
Class(c) == [class |-> c]
Instance(c) == [instance_of |-> c]
type(obj) == Class(obj.instance_of)

mutable_types == {Class("List"), Class("Set"), Class("Dict")}

is_mutable_type(var) == type(var) \in mutable_types

\* A pattern that matches an upper-case letter at the start only.
snake_violation_at_start(s) == s # << >> /\ s[1] \in UpperChars

\* re.match(snake_violation_pattern, s), "((\w*[A-Z]+\w*)+)": some
\* upper-case letter, with word characters only before it.
snake_violation(s) ==
    \E i \in 1..Len(s) :
        /\ s[i] \in UpperChars
        /\ \A j \in 1..(i - 1) : s[j] \in WordChars

\* re.match(camel_violation_pattern, s), "((?!([A-Z]+[a-z]+))|\w+_\w+)":
\* either s does not start with upper-case letters followed by a lower-case
\* one, or it starts with word characters around an underscore.
camel_violation(s) ==
    \/ ~ \E k \in 1..(Len(s) - 1) :
            /\ \A j \in 1..k : s[j] \in UpperChars
            /\ s[k + 1] \in LowerChars
    \/ \E i \in 2..(Len(s) - 1) :
            /\ s[i] = "_"
            /\ \A j \in 1..(i - 1) : s[j] \in WordChars
            /\ s[i + 1] \in WordChars

\* pattern.match(line.strip()) of too_many_spaces: the keyword, two or more
\* whitespace characters, a word character.
keyword_spaces_match(s) ==
    \E kw \in {<< "d", "e", "f" >>, << "c", "l", "a", "s", "s" >>} :
        LET k == Len(kw)
        IN  /\ Len(s) >= k + 3
            /\ SubSeq(s, 1, k) = kw
            /\ s[k + 1] \in Whitespace
            /\ s[k + 2] \in Whitespace
            /\ \E m \in (k + 3)..Len(s) :
                   /\ s[m] \in WordChars
                   /\ \A j \in (k + 3)..(m - 1) : s[j] \in Whitespace

too_many_spaces(p, node) ==
    IF keyword_spaces_match(strip(node.source))
    THEN << CodeIssue(p, node.lineno, "S007", node.name) >> ELSE << >>

camel_case_check(p, node) ==
    IF camel_violation(node.name)
    THEN << CodeIssue(p, node.lineno, "S008", node.name) >> ELSE << >>

snake_case_fct(p, node) ==
    IF snake_violation(node.name)
    THEN << CodeIssue(p, node.lineno, "S009", node.name) >> ELSE << >>

\* The subsequence of the names that violate snake_case, in order.
RECURSIVE violating_names(_)
violating_names(names) ==
    IF names = << >> THEN << >>
    ELSE (IF snake_violation(Head(names)) THEN << Head(names) >> ELSE << >>)
         \o violating_names(Tail(names))

snake_case_args(p, node) ==
    LET violating_arg_names == violating_names(node.args)
    IN  [i \in 1..Len(violating_arg_names) |->
            CodeIssue(p, node.lineno, "S010", violating_arg_names[i])]

\* The ids of the targets that are ast.Name nodes: a target is never a
\* Python list or tuple, so the second case of the match takes none.
RECURSIVE name_targets(_)
name_targets(targets) ==
    IF targets = << >> THEN << >>
    ELSE (IF Head(targets).kind = "Name" THEN << Head(targets).id >>
          ELSE << >>)
         \o name_targets(Tail(targets))

\* parent_kind is type(node.parent).
snake_case_var(p, node, parent_kind) ==
    LET is_value_mutable == node.value \in mutable_types
    IN  IF is_value_mutable \/ parent_kind = "FunctionDef"
        THEN LET violating_var_names ==
                     violating_names(name_targets(node.targets))
             IN  [i \in 1..Len(violating_var_names) |->
                     CodeIssue(p, node.lineno, "S011", violating_var_names[i])]
        ELSE << >>

mutable_default(p, node) ==
    IF \E i \in 1..Len(node.defaults) : is_mutable_type(node.defaults[i])
    THEN << CodeIssue(p, node.lineno, "S012", None) >> ELSE << >>

\* BaseCodeAnalyzer.ast_analyzers: the issue types of each node type.
ast_analyzer_keys(kind) ==
    CASE kind = "ClassDef"    -> {"S007", "S008"}
      [] kind = "FunctionDef" -> {"S007", "S009", "S010", "S012"}
      [] kind = "Assign"      -> {"S011"}
      [] OTHER                -> {}

ast_analyzer_types == {"ClassDef", "FunctionDef", "Assign"}

ast_analyzer(t, p, node, parent_kind) ==
    CASE t = "S007" -> too_many_spaces(p, node)
      [] t = "S008" -> camel_case_check(p, node)
      [] t = "S009" -> snake_case_fct(p, node)
      [] t = "S010" -> snake_case_args(p, node)
      [] t = "S011" -> snake_case_var(p, node, parent_kind)
      [] t = "S012" -> mutable_default(p, node)

---------------------------------------------------------------------------
(* Iterating a set, and list.sort.                                         *)

\* The orders in which iterating the set S may yield its elements.
RECURSIVE Orders(_)
Orders(S) ==
    IF S = {} THEN {<< >>}
    ELSE UNION {{<< x >> \o o : o \in Orders(S \ {x})} : x \in S}

ords(s) == [i \in 1..Len(s) |-> ord(s[i])]

\* a < b for tuples of numbers.
RECURSIVE key_less(_, _)
key_less(a, b) ==
    IF b = << >> THEN FALSE
    ELSE IF a = << >> THEN TRUE
    ELSE IF Head(a) # Head(b) THEN Head(a) < Head(b)
    ELSE key_less(Tail(a), Tail(b))

\* One more pair << key, item >> put into a sorted list of pairs, behind
\* every pair whose key is not greater: the sort is stable.
RECURSIVE insert_by_key(_, _)
insert_by_key(s, x) ==
    IF s = << >> THEN << x >>
    ELSE IF key_less(x[1], s[Len(s)][1])
         THEN insert_by_key(SubSeq(s, 1, Len(s) - 1), x) \o << s[Len(s)] >>
         ELSE s \o << x >>

RECURSIVE sort_pairs(_)
sort_pairs(s) ==
    IF s = << >> THEN << >>
    ELSE insert_by_key(sort_pairs(SubSeq(s, 1, Len(s) - 1)), s[Len(s)])

\* items.sort(key=key)
list_sort(items, key(_)) ==
    LET sorted == sort_pairs([i \in 1..Len(items) |->
                                 << key(items[i]), items[i] >>])
    IN  [i \in 1..Len(items) |-> sorted[i][2]]

\* A key that leaves out the name.
issue_key_line_only(i) == << i.line >>

\* The key of get_issues, (i.line, i.type.name): the name's characters
\* follow the line number, which compares as the pair does.
issue_key(i) == << i.line >> \o ords(name_chars(i.type))

\* The rule codes of a set in ascending order.
RECURSIVE ascending_codes(_)
ascending_codes(S) ==
    IF S = {} THEN << >>
    ELSE LET least == CHOOSE t \in S : \A u \in S :
                          t = u \/ str_less(name_chars(t), name_chars(u))
         IN  << least >> \o ascending_codes(S \ {least})

\* A key that tells no path from another.
path_key_none(i) == << >>

\* The key of analyze_multi, issue.path.
path_key(i) == ords(i.path)

---------------------------------------------------------------------------
(* The passes of BaseCodeAnalyzer.analyze.                                 *)

\* A selection that takes every rule of the pass.
intersection_all_keys(requested_checks, keys) == keys

\* requested_checks.intersection(keys), the rules a pass selects.
intersection(requested_checks, keys) == requested_checks \cap keys

\* The inner loop of line_by_line_analysis: the selected rules on one
\* line, in the order the set yields them.
RECURSIVE check_line(_, _, _, _)
check_line(p, line_no, line, order) ==
    IF order = << >> THEN << >>
    ELSE single_line_analyzer(Head(order), p, line_no, line)
         \o check_line(p, line_no, line, Tail(order))

\* The outer loop with enumerate counting from 0.
RECURSIVE check_lines_from_zero(_, _, _, _)
check_lines_from_zero(p, lines, i, order) ==
    IF i > Len(lines) THEN << >>
    ELSE check_line(p, i - 1, lines[i], order)
         \o check_lines_from_zero(p, lines, i + 1, order)

\* The outer loop, from the line at index i on.
RECURSIVE check_lines(_, _, _, _)
check_lines(p, lines, i, order) ==
    IF i > Len(lines) THEN << >>
    ELSE check_line(p, i, lines[i], order)
         \o check_lines(p, lines, i + 1, order)

\* What line_by_line_analysis appends to found_issues.
line_by_line_analysis(p, text, order) ==
    check_lines(p, splitlines(text), 1, order)

\* What bulk_analysis appends to found_issues.
RECURSIVE bulk_analysis(_, _, _)
bulk_analysis(p, text, order) ==
    IF order = << >> THEN << >>
    ELSE blank_lines(p, text) \o bulk_analysis(p, text, Tail(order))

\* What check_node appends to found_issues for one node.
RECURSIVE check_node(_, _, _, _)
check_node(p, node, parent_kind, order) ==
    IF order = << >> THEN << >>
    ELSE ast_analyzer(Head(order), p, node, parent_kind)
         \o check_node(p, node, parent_kind, Tail(order))

\* get_issues without the sort.
get_issues_unsorted(found) == found

\* The findings with one left of those that share a line and a code.
RECURSIVE drop_same_key(_)
drop_same_key(found) ==
    IF found = << >> THEN << >>
    ELSE LET rest == drop_same_key(Tail(found))
         IN  IF \E k \in 1..Len(rest) :
                    issue_key(rest[k]) = issue_key(Head(found))
             THEN rest
             ELSE << Head(found) >> \o rest

get_issues_collapsed(found) == list_sort(drop_same_key(found), issue_key)

get_issues(found) == list_sort(found, issue_key)

\* One line of print_issues: the message argument is printed when it is
\* not empty.
printed_issue(i) ==
    [kind |-> "issue", path |-> i.path, line |-> i.line, code |-> i.type,
     msg_arg |-> i.str_arg]

print_issues(list) == [k \in 1..Len(list) |-> printed_issue(list[k])]

---------------------------------------------------------------------------
(* filter_issue_types.                                                     *)

\* IssueType[name] finds a member.
is_member_name(name) == \E t \in IssueType : name_chars(t) = name

member_named(name) == CHOOSE t \in IssueType : name_chars(t) = name

\* A loop that a name that is no member ends.
RECURSIVE filter_loop_fatal(_, _, _)
filter_loop_fatal(exclude_list, types, out) ==
    IF exclude_list = << >> THEN [issue_types |-> types, out |-> out]
    ELSE LET exclude_str == Head(exclude_list)
             issue_type_name == upper(strip(exclude_str))
             invalid == [kind |-> "invalid_argument",
                         code |-> strip(exclude_str)]
         IN  IF is_member_name(issue_type_name)
             THEN LET to_exclude == CHOOSE t \in IssueType :
                                       name_chars(t) = issue_type_name
                  IN  filter_loop_fatal(
                          Tail(exclude_list), types \ {to_exclude},
                          out \o << [kind |-> "excluding",
                                     code |-> issue_type_name] >>)
             ELSE [issue_types |-> types, out |-> out \o << invalid >>]

\* The loop over exclude_list: the set left and the lines printed.  A name
\* that is no member, and a member no longer in the set, both raise the
\* KeyError the loop catches.
RECURSIVE filter_loop(_, _, _)
filter_loop(exclude_list, types, out) ==
    IF exclude_list = << >> THEN [issue_types |-> types, out |-> out]
    ELSE LET exclude_str == Head(exclude_list)
             issue_type_name == upper(strip(exclude_str))
             invalid == [kind |-> "invalid_argument",
                         code |-> strip(exclude_str)]
         IN  IF is_member_name(issue_type_name)
             THEN LET to_exclude == member_named(issue_type_name)
                      excluding == [kind |-> "excluding",
                                    code |-> name_chars(to_exclude)]
                  IN  IF to_exclude \in types
                      THEN filter_loop(Tail(exclude_list),
                                       types \ {to_exclude},
                                       out \o << excluding >>)
                      ELSE filter_loop(Tail(exclude_list), types,
                                       out \o << excluding, invalid >>)
             ELSE filter_loop(Tail(exclude_list), types,
                              out \o << invalid >>)

\* The set returned and the lines printed; an absent --exclude is the
\* empty string.
filter_issue_types(exclude) ==
    IF exclude # << >>
    THEN LET r == filter_loop(split(exclude, ","), IssueType, << >>)
         IN  [issue_types |-> r.issue_types,
              out |-> r.out \o << [kind |-> "blank"] >>]
    ELSE [issue_types |-> IssueType, out |-> << >>]

---------------------------------------------------------------------------
(* ast.parse, for source files made of the lines below.                    *)

BlankLine == << >>
\* def F(A): X=1 #todo
DefLine ==
    << "d", "e", "f", " ", "F", "(", "A", ")", ":", " ", "X", "=", "1",
       " ", "#", "t", "o", "d", "o" >>
\* class  a: pass
ClassLine ==
    << "c", "l", "a", "s", "s", " ", " ", "a", ":", " ", "p", "a", "s",
       "s" >>
\* def  f(a=[]): pass
DefaultLine ==
    << "d", "e", "f", " ", " ", "f", "(", "a", "=", "[", "]", ")", ":",
       " ", "p", "a", "s", "s" >>
\* An indented statement closed by a semicolon, " x;": where a block is
\* not open, as on every line of these files, the indentation is an error.
BadLine == << " ", "x", ";" >>
\* A name of MAX_LINES + 1 characters, an expression statement.
WideLine == [i \in 1..(MAX_LINES + 1) |-> "x"]
\* X=[]
ListLine == << "X", "=", "[", "]" >>
\* X=1
ConstLine == << "X", "=", "1" >>
\* def f(A, B): pass
TwoArgsLine ==
    << "d", "e", "f", " ", "f", "(", "A", ",", " ", "B", ")", ":", " ", "p",
       "a", "s", "s" >>

AstNode(kind, lineno, children, name, source, args, defaults, targets, value) ==
    [kind |-> kind, lineno |-> lineno, children |-> children,
     name |-> name, source |-> source, args |-> args,
     defaults |-> defaults, targets |-> targets, value |-> value]

NoValue == Instance("NoneType")

\* A node of a type no rule reads the fields of.
Plain(kind, lineno, children) ==
    AstNode(kind, lineno, children, << >>, << >>, << >>, << >>, << >>,
            NoValue)

\* The nodes of the statement on one line, the first of them the
\* statement's, numbered from base + 1 on, with their children in the
\* order of ast.iter_child_nodes.  A node without a line has lineno 0.
statement_nodes(line, lineno, base) ==
    IF line = DefLine
    THEN << AstNode("FunctionDef", lineno, << base + 2, base + 3 >>,
                    << "F" >>, SubSeq(DefLine, 1, 13), << << "A" >> >>,
                    << >>, << >>, NoValue),
            Plain("arguments", 0, << base + 4 >>),
            AstNode("Assign", lineno, << base + 5, base + 6 >>, << >>,
                    SubSeq(DefLine, 11, 13), << >>, << >>,
                    << [kind |-> "Name", id |-> << "X" >>] >>,
                    Instance("Constant")),
            Plain("arg", lineno, << >>),
            Plain("Name", lineno, << base + 7 >>),
            Plain("Constant", lineno, << >>),
            Plain("Store", 0, << >>) >>
    ELSE IF line = ClassLine
    THEN << AstNode("ClassDef", lineno, << base + 2 >>, << "a" >>,
                    ClassLine, << >>, << >>, << >>, NoValue),
            Plain("Pass", lineno, << >>) >>
    ELSE IF line = DefaultLine
    THEN << AstNode("FunctionDef", lineno, << base + 2, base + 3 >>,
                    << "f" >>, DefaultLine, << << "a" >> >>,
                    << Instance("List") >>, << >>, NoValue),
            Plain("arguments", 0, << base + 4, base + 5 >>),
            Plain("Pass", lineno, << >>),
            Plain("arg", lineno, << >>),
            Plain("List", lineno, << base + 6 >>),
            Plain("Load", 0, << >>) >>
    ELSE IF line = WideLine
    THEN << Plain("Expr", lineno, << base + 2 >>),
            Plain("Name", lineno, << base + 3 >>),
            Plain("Load", 0, << >>) >>
    ELSE IF line = ListLine
    THEN << AstNode("Assign", lineno, << base + 2, base + 3 >>, << >>,
                    ListLine, << >>, << >>,
                    << [kind |-> "Name", id |-> << "X" >>] >>,
                    Instance("List")),
            Plain("Name", lineno, << base + 4 >>),
            Plain("List", lineno, << base + 5 >>),
            Plain("Store", 0, << >>),
            Plain("Load", 0, << >>) >>
    ELSE IF line = ConstLine
    THEN << AstNode("Assign", lineno, << base + 2, base + 3 >>, << >>,
                    ConstLine, << >>, << >>,
                    << [kind |-> "Name", id |-> << "X" >>] >>,
                    Instance("Constant")),
            Plain("Name", lineno, << base + 4 >>),
            Plain("Constant", lineno, << >>),
            Plain("Store", 0, << >>) >>
    ELSE IF line = TwoArgsLine
    THEN << AstNode("FunctionDef", lineno, << base + 2, base + 3 >>,
                    << "f" >>, TwoArgsLine, << << "A" >>, << "B" >> >>,
                    << >>, << >>, NoValue),
            Plain("arguments", 0, << base + 4, base + 5 >>),
            Plain("Pass", lineno, << >>),
            Plain("arg", lineno, << >>),
            Plain("arg", lineno, << >>) >>
    ELSE << >>

\* The statements of the lines from index i on: their nodes, and the
\* numbers of the nodes that are statements of the module.
RECURSIVE parse_lines(_, _, _)
parse_lines(lines, i, base) ==
    IF i > Len(lines) THEN [nodes |-> << >>, body |-> << >>]
    ELSE LET here == statement_nodes(lines[i], i, base)
             rest == parse_lines(lines, i + 1, base + Len(here))
         IN  [nodes |-> here \o rest.nodes,
              body |-> (IF here = << >> THEN << >> ELSE << base + 1 >>)
                       \o rest.body]

NoTree == [ok |-> FALSE, nodes |-> << >>]

\* ast.parse(text): SyntaxError (ok = FALSE) when a line is indented, else
\* the Module, node 1, and the nodes of its statements.
ast_parse(text) ==
    LET lines == splitlines(text)
        parsed == parse_lines(lines, 1, 1)
    IN  IF \E i \in 1..Len(lines) : lines[i] = BadLine
        THEN NoTree
        ELSE [ok |-> TRUE,
              nodes |-> << Plain("Module", 0, parsed.body) >>
                        \o parsed.nodes]

---------------------------------------------------------------------------
(* The file system.                                                        *)

isfile(p) == p \in DOMAIN fs /\ fs[p].kind = "file"

isdir(p) == p \in DOMAIN fs /\ fs[p].kind = "dir"

py_suffix == << ".", "p", "y" >>

\* The files os.walk(directory) yields: those below the directory.
walked_files(directory) ==
    {f \in DOMAIN fs :
        /\ fs[f].kind = "file"
        /\ Len(f) > Len(directory) + 1
        /\ SubSeq(f, 1, Len(directory) + 1) = directory \o << "/" >>}

---------------------------------------------------------------------------
(* The program: main, analyze_single, analyze_multi and the analyzer.      *)

inputs == << fs, argv_path, exclude_arg >>
analyzer == << path, codebase, found_issues, tree, todo, parent, checked >>
applied == << arg, ret >>

NoPath == << >>

\* main, up to the call of filter_issue_types.
FilterIssueTypes ==
    /\ pc = "main"
    /\ LET r == filter_issue_types(exclude_arg)
       IN  /\ issue_types' = r.issue_types
           /\ stdout' = stdout \o r.out
    /\ pc' = "dispatch"
    /\ UNCHANGED << inputs, analyzer, issues, pending, walked, caller, previous,
                    applied >>

\* main, the choice between analyze_single, analyze_multi and the message.
Dispatch ==
    /\ pc = "dispatch"
    /\ IF isfile(argv_path) /\ endswith(argv_path, py_suffix)
       THEN pc' = "analyze_single" /\ stdout' = stdout
       ELSE IF isdir(argv_path)
       THEN pc' = "analyze_multi" /\ stdout' = stdout
       ELSE /\ pc' = "done"
            /\ stdout' = Append(stdout, [kind |-> "invalid_path",
                                         path |-> argv_path])
    /\ UNCHANGED << inputs, issue_types, analyzer, issues, pending, walked, caller,
                    previous, applied >>

\* analyze_single, up to the construction of the analyzer.
AnalyzeSingle ==
    /\ pc = "analyze_single"
    /\ path' = argv_path
    /\ caller' = "analyze_single"
    /\ pc' = "construct"
    /\ UNCHANGED << inputs, issue_types, codebase, found_issues, tree, todo,
                    parent, checked, issues, pending, walked, stdout, previous,
                    applied >>

\* analyze_multi, up to the loop over os.walk.
AnalyzeMulti ==
    /\ pc = "analyze_multi"
    /\ issues' = << >>
    /\ pending' = walked_files(argv_path)
    /\ walked' = << >>
    /\ caller' = "analyze_multi"
    /\ pc' = "os_walk"
    /\ UNCHANGED << inputs, issue_types, analyzer, stdout, previous,
                    applied >>

\* One file of the loop: os.walk yields the files in no specified order,
\* and a file whose name does not end in .py is passed over.
OsWalkNext ==
    /\ pc = "os_walk"
    /\ \E file \in pending :
        /\ pending' = pending \ {file}
        /\ walked' = Append(walked, file)
        /\ IF endswith(file, py_suffix)
           THEN path' = file /\ pc' = "construct"
           ELSE path' = path /\ pc' = "os_walk"
    /\ UNCHANGED << inputs, issue_types, codebase, found_issues, tree, todo,
                    parent, checked, issues, stdout, caller, previous,
                    applied >>

\* The end of analyze_multi: the sort by path and the printing.
OsWalkEnd ==
    /\ pc = "os_walk"
    /\ pending = {}
    /\ issues' = list_sort(issues, path_key)
    /\ stdout' = stdout \o print_issues(issues')
    /\ pc' = "done"
    /\ UNCHANGED << inputs, issue_types, analyzer, pending, walked, caller,
                    previous, applied >>

\* BaseCodeAnalyzer.__init__: open raises OSError for a file that cannot
\* be read, and nothing catches it.
Construct ==
    /\ pc = "construct"
    /\ IF fs[path].readable
       THEN /\ codebase' = fs[path].codebase
            /\ found_issues' = << >>
            /\ pc' = "line_by_line_analysis"
       ELSE /\ pc' = "OSError"
            /\ UNCHANGED << codebase, found_issues >>
    /\ tree' = NoTree
    /\ todo' = << >>
    /\ parent' = << >>
    /\ checked' = << >>
    /\ UNCHANGED << inputs, issue_types, path, issues, pending, walked, stdout,
                    caller, previous, applied >>

LineByLineAnalysis ==
    /\ pc = "line_by_line_analysis"
    /\ \E order \in Orders(intersection(issue_types, single_line_keys)) :
        found_issues' =
            found_issues \o line_by_line_analysis(path, codebase, order)
    /\ pc' = "bulk_analysis"
    /\ UNCHANGED << inputs, issue_types, path, codebase, tree, todo, parent,
                    checked, issues, pending, walked, stdout, caller, previous,
                    applied >>

BulkAnalysis ==
    /\ pc = "bulk_analysis"
    /\ \E order \in Orders(intersection(issue_types, bulk_keys)) :
        found_issues' = found_issues \o bulk_analysis(path, codebase, order)
    /\ pc' = "ast_node_analysis"
    /\ UNCHANGED << inputs, issue_types, path, codebase, tree, todo, parent,
                    checked, issues, pending, walked, stdout, caller, previous,
                    applied >>

\* ast_node_analysis, the call of ast.parse and the start of ast.walk: a
\* SyntaxError is not caught.
AstParse ==
    /\ pc = "ast_node_analysis"
    /\ tree' = ast_parse(codebase)
    /\ IF tree'.ok
       THEN /\ todo' = << 1 >>
            /\ parent' = [n \in 1..Len(tree'.nodes) |-> 0]
            /\ pc' = "ast_walk"
       ELSE /\ pc' = "SyntaxError"
            /\ UNCHANGED << todo, parent >>
    /\ UNCHANGED << inputs, issue_types, path, codebase, found_issues,
                    checked, issues, pending, walked, stdout, caller, previous,
                    applied >>

\* A loop body that leaves the children without their parent.
set_parents_none(parents, n, children) == parents

\* child.parent = node, for the children of node n.
set_parents(parents, n, children) ==
    [m \in DOMAIN parents |-> IF m \in children THEN n ELSE parents[m]]

\* One node of the loop over ast.walk(tree): walk takes the node from the
\* left of its queue and puts the node's children at the right, the loop
\* body sets the children's parent and checks the node.  The sets of
\* check_node are new ones for every node.  A node that is read for its
\* parent before the parent was set raises AttributeError.
AstVisit ==
    /\ pc = "ast_walk"
    /\ todo # << >>
    /\ LET n == Head(todo)
           node == tree.nodes[n]
           children == {node.children[k] : k \in 1..Len(node.children)}
           parent_kind ==
               IF parent[n] = 0 THEN "unset" ELSE tree.nodes[parent[n]].kind
           selected ==
               intersection(issue_types, ast_analyzer_keys(node.kind))
       IN  /\ todo' = Tail(todo) \o node.children
           /\ parent' = set_parents(parent, n, children)
           /\ IF node.kind \in ast_analyzer_types
              THEN /\ checked' = Append(checked, n)
                   /\ IF "S011" \in selected /\ parent_kind = "unset"
                      THEN /\ pc' = "AttributeError"
                           /\ found_issues' = found_issues
                      ELSE /\ pc' = pc
                           /\ \E order \in Orders(selected) :
                                found_issues' = found_issues
                                    \o check_node(path, node, parent_kind,
                                                  order)
              ELSE UNCHANGED << checked, found_issues, pc >>
    /\ UNCHANGED << inputs, issue_types, path, codebase, tree, issues,
                    pending, walked, stdout, caller, previous, applied >>

\* The walk is over: analyze returns, the caller calls get_issues, which
\* sorts found_issues in place, and prints or keeps what it returns.
GetIssues ==
    /\ pc = "ast_walk"
    /\ todo = << >>
    /\ found_issues' = get_issues(found_issues)
    /\ IF caller = "analyze_single"
       THEN /\ stdout' = stdout \o print_issues(found_issues')
            /\ issues' = issues
            /\ pc' = "done"
       ELSE /\ issues' = issues \o found_issues'
            /\ stdout' = stdout
            /\ pc' = "os_walk"
    /\ UNCHANGED << inputs, issue_types, path, codebase, tree, todo, parent,
                    checked, pending, walked, caller, previous, applied >>

---------------------------------------------------------------------------
(* A single file is analyzed: analyze_single.                              *)

MaxLines == 5

\* The lines the file is made of.
LineTexts == {BlankLine, DefLine, BadLine}

RECURSIVE join_lines(_)
join_lines(lines) ==
    IF lines = << >> THEN << >>
    ELSE Head(lines) \o << Newline >> \o join_lines(Tail(lines))

Codebases ==
    {join_lines(lines) :
        lines \in UNION {[1..n -> LineTexts] : n \in 0..MaxLines}}

\* The checks a run may leave out.
Excludable == {"S004", "S010"}

\* The sets of checks main passes on: all of them but the excluded ones.
RequestedSets == {IssueType \ X : X \in SUBSET Excludable}

SinglePath == << "a", ".", "p", "y" >>

NotRun == [ran |-> FALSE, issues |-> << >>]

\* The state in which no analyzer has been constructed and nothing was
\* printed.
Idle ==
    /\ path = NoPath
    /\ codebase = << >>
    /\ found_issues = << >>
    /\ tree = NoTree
    /\ todo = << >>
    /\ parent = << >>
    /\ checked = << >>
    /\ issues = << >>
    /\ pending = {}
    /\ walked = << >>
    /\ stdout = << >>
    /\ caller = "none"
    /\ previous = NotRun

\* No function is applied on its own.
NothingApplied ==
    /\ arg = << >>
    /\ ret = << >>

InitSingle ==
    /\ \E text \in Codebases :
         fs = (SinglePath :> [kind |-> "file", readable |-> TRUE,
                               codebase |-> text])
    /\ argv_path = SinglePath
    /\ exclude_arg = << >>
    /\ issue_types \in RequestedSets
    /\ pc = "analyze_single"
    /\ Idle
    /\ NothingApplied

\* The program is run once more on the same input.
RunAgain ==
    /\ pc = "done"
    /\ ~previous.ran
    /\ previous' = [ran |-> TRUE, issues |-> found_issues]
    /\ pc' = "analyze_single"
    /\ stdout' = << >>
    /\ UNCHANGED << inputs, issue_types, analyzer, issues, pending, walked, caller,
                    applied >>

NextSingle ==
    \/ AnalyzeSingle
    \/ Construct
    \/ LineByLineAnalysis
    \/ BulkAnalysis
    \/ AstParse
    \/ AstVisit
    \/ GetIssues

Spec == InitSingle /\ [][NextSingle]_vars

\* The same, with the file analyzed a second time.
NextTwice ==
    \/ AnalyzeSingle
    \/ Construct
    \/ LineByLineAnalysis
    \/ BulkAnalysis
    \/ AstParse
    \/ AstVisit
    \/ GetIssues
    \/ RunAgain

SpecTwice == InitSingle /\ [][NextTwice]_vars

---------------------------------------------------------------------------
(* Properties of a single-file run.                                        *)

\* a comes before b, or equals it, in the order (line, rule code).
InOrder(a, b) ==
    \/ a.line < b.line
    \/ /\ a.line = b.line
       /\ \/ a.type = b.type
          \/ str_less(name_chars(a.type), name_chars(b.type))

Types(list) == {list[k].type : k \in 1..Len(list)}

\* C1: the list a single-file run returns (analyze, then get_issues) is
\* sorted ascending by (line, rule code): of two adjacent issues the first
\* has the smaller line, or the same line and a rule code that is not the
\* greater, whichever pass produced them.
C1_SingleFileSorted ==
    pc = "done" =>
        \A k \in 1..(Len(found_issues) - 1) :
            InOrder(found_issues[k], found_issues[k + 1])

\* A run has returned issues of the line pass, the whole-file pass and the
\* syntax pass, on more than one line.
C1_Witness ==
    /\ pc = "done"
    /\ {"S005", "S006", "S009"} \subseteq Types(found_issues)
    /\ \E j, k \in 1..Len(found_issues) :
           found_issues[j].line # found_issues[k].line

\* C3: a second run on the same input with the same checks requested
\* returns the same list as the first, in whatever order the sets of
\* checks are iterated in either run.
C3_RunsAgree ==
    (pc = "done" /\ previous.ran) => found_issues = previous.issues

\* Two runs are over, and several rules found something on one line.
C3_Witness ==
    /\ pc = "done"
    /\ previous.ran
    /\ \E j, k \in 1..Len(found_issues) :
           /\ found_issues[j].line = found_issues[k].line
           /\ found_issues[j].type = "S004"
           /\ found_issues[k].type = "S005"
    /\ {"S009", "S010"} \subseteq Types(found_issues)

\* The lines the line pass, run on its own with the rule codes in
\* ascending order, reports for a text.
LinePassIssues(text) ==
    line_by_line_analysis(path, text, ascending_codes(single_line_keys))

\* C4: when the text cannot be parsed, analyze does not crash: the run
\* ends normally, what the line pass found is reported, no check of a node
\* was made, and one diagnostic issue reports the parse failure.
C4_ParseFailureReported ==
    (pc \in {"done", "SyntaxError"} /\ ~ast_parse(codebase).ok) =>
        /\ pc = "done"
        /\ checked = << >>
        /\ Types(LinePassIssues(codebase)) \cap issue_types
               \subseteq Types(found_issues)
        /\ Cardinality({k \in 1..Len(stdout) :
                            stdout[k].kind = "parse_failure"}) = 1

\* C7: every issue found has a line number from 1 to the number of lines
\* of the file, and a rule code that is one of S001 to S012.
C7_LineAndCodeInRange ==
    \A k \in 1..Len(found_issues) :
        /\ found_issues[k].line \in 1..Len(splitlines(codebase))
        /\ found_issues[k].type \in IssueType

\* The three passes have found issues, one of them on the last line.
C7_Witness ==
    /\ pc = "done"
    /\ {"S004", "S006", "S011"} \subseteq Types(found_issues)
    /\ \E k \in 1..Len(found_issues) :
           found_issues[k].line = Len(splitlines(codebase))
    /\ \E k \in 1..Len(found_issues) : found_issues[k].line = 1

---------------------------------------------------------------------------
(* The whole program: main on a path and an --exclude argument.            *)

MaxFiles == 2

Directory == << "d" >>
PyPath(n) == Directory \o << "/", n, ".", "p", "y" >>
TextPath == Directory \o << "/", "a", ".", "t", "x", "t" >>
MissingPath == << "x" >>

PyPaths == {PyPath("a"), PyPath("b"), PyPath("s")}

\* What a file may hold: it cannot be read; it cannot be parsed; a class
\* and a function, with issues on lines 1 and 2; a function after three
\* blank lines and a wide line, with issues on lines 4 and 5; nothing.
Unreadable == [kind |-> "file", readable |-> FALSE, codebase |-> << >>]
Readable(text) == [kind |-> "file", readable |-> TRUE, codebase |-> text]

FileContents ==
    {Unreadable,
     Readable(join_lines(<< BadLine >>)),
     Readable(join_lines(<< ClassLine, DefLine >>)),
     Readable(join_lines(<< BlankLine, BlankLine, BlankLine, DefaultLine,
                            WideLine >>)),
     Readable(<< >>)}

\* The directory with at most MaxFiles files .py and, or not, a file .txt.
FileSystems ==
    {dir @@ txt @@ py :
        dir \in {(Directory :> [kind |-> "dir", readable |-> TRUE,
                                codebase |-> << >>])},
        txt \in {<< >>, (TextPath :> Readable(<< "x" >>))},
        py \in UNION {[P -> FileContents] :
                        P \in {Q \in SUBSET PyPaths :
                                  Cardinality(Q) <= MaxFiles}}}

ArgPaths == {Directory, PyPath("a"), TextPath, MissingPath}

\* s001, S002,S003
ExcludeSome ==
    << "s", "0", "0", "1", ",", " ", "S", "0", "0", "2", ",", "S", "0",
       "0", "3" >>

ExcludeArgs == {<< >>, ExcludeSome}

InitMain ==
    /\ fs \in FileSystems
    /\ argv_path \in ArgPaths
    /\ exclude_arg \in ExcludeArgs
    /\ issue_types = IssueType
    /\ pc = "main"
    /\ Idle
    /\ NothingApplied

NextMain ==
    \/ FilterIssueTypes
    \/ Dispatch
    \/ AnalyzeSingle
    \/ AnalyzeMulti
    \/ OsWalkNext
    \/ OsWalkEnd
    \/ Construct
    \/ LineByLineAnalysis
    \/ BulkAnalysis
    \/ AstParse
    \/ AstVisit
    \/ GetIssues

SpecMain == InitMain /\ [][NextMain]_vars

---------------------------------------------------------------------------
(* Properties of the whole program.                                        *)

\* The program has ended: normally, or with an exception nothing caught.
Ended == pc \in {"done", "OSError", "SyntaxError", "AttributeError"}

\* a comes before b, or equals it, in the order (path, line, rule code).
InPathOrder(a, b) ==
    \/ str_less(a.path, b.path)
    \/ a.path = b.path /\ InOrder(a, b)

\* C2: the list analyze_multi prints is sorted by (path, line, rule
\* code), in whatever order os.walk yields the files: the issues of a
\* smaller path come first, those of one path are in the order (line, rule
\* code).
C2_MultiSortedByPath ==
    (pc = "done" /\ caller = "analyze_multi") =>
        /\ \A k \in 1..(Len(issues) - 1) :
               InPathOrder(issues[k], issues[k + 1])
        /\ stdout = filter_issue_types(exclude_arg).out
                        \o print_issues(issues)

\* The file of the greater path was yielded first, and its issues are on
\* smaller lines than the last issue of the other file.
C2_Witness ==
    /\ pc = "done"
    /\ caller = "analyze_multi"
    /\ walked = << PyPath("b"), PyPath("a") >>
    /\ Len(issues) > 2
    /\ issues[1].path = PyPath("a")
    /\ issues[Len(issues)].path = PyPath("b")
    /\ \E j, k \in 1..Len(issues) :
           /\ j < k
           /\ issues[j].path = PyPath("a")
           /\ issues[k].path = PyPath("b")
           /\ issues[j].line > issues[k].line

\* The issues the line pass finds in file f, the rule codes in ascending
\* order, for the checks requested.
LineIssuesOf(f) ==
    line_by_line_analysis(
        f, fs[f].codebase,
        ascending_codes(issue_types \cap single_line_keys))

\* File f can be read and parsed.
Sound(f) == fs[f].readable /\ ast_parse(fs[f].codebase).ok

\* C5: in a scan of several files, a file that cannot be read or parsed
\* does not keep the other files from being analyzed: when the program has
\* ended, what the line pass finds in every sound file .py of the
\* directory is in the output.
C5_FailureIsolated ==
    (Ended /\ caller = "analyze_multi") =>
        \A f \in walked_files(argv_path) :
            (endswith(f, py_suffix) /\ Sound(f)) =>
                \A k \in 1..Len(LineIssuesOf(f)) :
                    \E m \in 1..Len(stdout) :
                        stdout[m] = printed_issue(LineIssuesOf(f)[k])

\* The path names something that can be analyzed: a file .py, or a
\* directory with a file .py in it.
Analyzable(p) ==
    \/ isfile(p) /\ endswith(p, py_suffix)
    \/ isdir(p) /\ \E f \in walked_files(p) : endswith(f, py_suffix)

\* C8: when the path is neither a file .py nor a directory with a file
\* .py in it, the program says so: it prints that the path does not
\* contain a valid script.
C8_NotAnalyzableReported ==
    (Ended /\ ~Analyzable(argv_path)) =>
        \E m \in 1..Len(stdout) :
            stdout[m] = [kind |-> "invalid_path", path |-> argv_path]

---------------------------------------------------------------------------
(* filter_issue_types on the --exclude arguments made of a few codes.      *)

MaxTokens == 3

\* S004; s006 after a space; S999, which is no rule code; the empty code.
Tokens ==
    {<< "S", "0", "0", "4" >>,
     << " ", "s", "0", "0", "6" >>,
     << "S", "9", "9", "9" >>,
     << >>}

RECURSIVE join_commas(_)
join_commas(tokens) ==
    IF tokens = << >> THEN << >>
    ELSE IF Len(tokens) = 1 THEN Head(tokens)
    ELSE Head(tokens) \o << "," >> \o join_commas(Tail(tokens))

ExcludeStrings ==
    {join_commas(tokens) :
        tokens \in UNION {[1..n -> Tokens] : n \in 0..MaxTokens}}

InitFilter ==
    /\ fs = << >>
    /\ argv_path = MissingPath
    /\ exclude_arg \in ExcludeStrings
    /\ issue_types = IssueType
    /\ pc = "main"
    /\ Idle
    /\ NothingApplied

NextFilter == FilterIssueTypes

SpecFilter == InitFilter /\ [][NextFilter]_vars

\* The codes listed in an --exclude argument.
Listed(exclude) == IF exclude = << >> THEN << >> ELSE split(exclude, ",")

\* The listed code names a rule.
Known(exclude_str) == is_member_name(upper(strip(exclude_str)))

\* The line printed reports a code that names no rule.
UnknownWarning(line) ==
    /\ line.kind = "invalid_argument"
    /\ ~is_member_name(upper(line.code))

\* C6: a code of the exclude list that names no rule is not fatal:
\* filter_issue_types prints one warning for it, and returns the set it
\* returns when the code is not listed, which is every rule but the ones
\* the known codes of the list name.
C6_UnknownCodeNotFatal ==
    pc = "dispatch" =>
        LET listed == Listed(exclude_arg)
            known == SelectSeq(listed, Known)
            unknown == SelectSeq(listed, LAMBDA e : ~Known(e))
            warnings == SelectSeq(stdout, UnknownWarning)
        IN  /\ issue_types = filter_issue_types(join_commas(known)).issue_types
            /\ issue_types =
                   IssueType \ {member_named(upper(strip(known[k]))) :
                                   k \in 1..Len(known)}
            /\ Len(warnings) = Len(unknown)
            /\ \A k \in 1..Len(unknown) :
                   warnings[k].code = strip(unknown[k])

\* S999 is listed before a known code, which is excluded all the same.
C6_Witness ==
    /\ pc = "dispatch"
    /\ Len(Listed(exclude_arg)) > 1
    /\ Listed(exclude_arg)[1] = << "S", "9", "9", "9" >>
    /\ \E k \in 1..Len(stdout) :
           stdout[k] = [kind |-> "invalid_argument",
                        code |-> << "S", "9", "9", "9" >>]
    /\ issue_types # IssueType

---------------------------------------------------------------------------
(* blank_lines on the texts of a few characters.                           *)

MaxTextLen == 9

TextChars == {"x", " ", Newline}

Texts == UNION {[1..n -> TextChars] : n \in 0..MaxTextLen}

InitBlank ==
    /\ fs = << >>
    /\ argv_path = SinglePath
    /\ exclude_arg = << >>
    /\ issue_types = IssueType
    /\ pc = "blank_lines"
    /\ Idle
    /\ arg \in Texts
    /\ ret = << >>

\* analyzer.blank_lines() of an analyzer of the text.
BlankLines ==
    /\ pc = "blank_lines"
    /\ ret' = blank_lines(argv_path, arg)
    /\ pc' = "blank_lines_returned"
    /\ UNCHANGED << inputs, issue_types, analyzer, issues, pending, walked,
                    stdout, caller, previous, arg >>

NextBlank == BlankLines

SpecBlank == InitBlank /\ [][NextBlank]_vars

\* Line i of the lines holds nothing but white space.
IsBlank(lines, i) == \A k \in 1..Len(lines[i]) : lines[i][k] \in Whitespace

\* The lines that are not blank and come right after more than two blank
\* lines.
AfterBlankRun(lines) ==
    {i \in 4..Len(lines) :
        /\ ~IsBlank(lines, i)
        /\ \A j \in (i - 3)..(i - 1) : IsBlank(lines, j)}

\* C9: blank_lines returns one issue S006 for each line that is not blank
\* and follows more than two blank lines in a row, in ascending order of
\* line, and no other issue: none after two blank lines, none for blank
\* lines at the end of the file.
C9_BlankLineRule ==
    pc = "blank_lines_returned" =>
        LET flagged == AfterBlankRun(splitlines(arg))
        IN  /\ Len(ret) = Cardinality(flagged)
            /\ \A k \in 1..Len(ret) :
                   /\ ret[k].line \in flagged
                   /\ ret[k].type = "S006"
                   /\ ret[k].path = argv_path
            /\ \A k \in 1..(Len(ret) - 1) : ret[k].line < ret[k + 1].line

\* Three blank lines and a line of code, then two blank lines and a line
\* of code: one issue, on line 4.
C9_Witness ==
    /\ pc = "blank_lines_returned"
    /\ arg = << Newline, Newline, Newline, "x", Newline, Newline, Newline,
                "x" >>
    /\ Len(ret) = 1
    /\ ret[1].line = 4

---------------------------------------------------------------------------
(* The line rules on the lines of a few characters.                        *)

MaxLineLen == 5
MaxLineNo == 2

LineChars == {"x", " ", "\t", "#"}

Lines == UNION {[1..n -> LineChars] : n \in 0..MaxLineLen}

InitLine ==
    /\ fs = << >>
    /\ argv_path = SinglePath
    /\ exclude_arg = << >>
    /\ issue_types = IssueType
    /\ pc = "missing_spaces"
    /\ Idle
    /\ arg \in [line_no : 1..MaxLineNo, line : Lines]
    /\ ret = << >>

\* analyzer.missing_spaces(line_no, line)
MissingSpaces ==
    /\ pc = "missing_spaces"
    /\ ret' = missing_spaces(argv_path, arg.line_no, arg.line)
    /\ pc' = "missing_spaces_returned"
    /\ UNCHANGED << inputs, issue_types, analyzer, issues, pending, walked,
                    stdout, caller, previous, arg >>

NextLine == MissingSpaces

SpecLine == InitLine /\ [][NextLine]_vars

\* The line has a comment marker, code that is not white space comes
\* before the first one, and fewer than two characters of white space come
\* right before it.
CommentTooClose(line) ==
    \E m \in 1..Len(line) :
        /\ line[m] = "#"
        /\ \A j \in 1..(m - 1) : line[j] # "#"
        /\ \E j \in 1..(m - 1) : line[j] \notin Whitespace
        /\ ~(line[m - 1] \in Whitespace /\ line[m - 2] \in Whitespace)

\* C10: missing_spaces returns an issue S004 for the line exactly when the
\* line has a comment marker with code before it and fewer than two
\* characters of white space between the code and the marker.
C10_CommentSpacingRule ==
    pc = "missing_spaces_returned" =>
        ret = IF CommentTooClose(arg.line)
              THEN << CodeIssue(argv_path, arg.line_no, "S004", None) >>
              ELSE << >>

\* One space between the code and the marker: an issue.
C10_Witness ==
    /\ pc = "missing_spaces_returned"
    /\ arg.line = << "x", " ", "#", "x" >>
    /\ Len(ret) = 1
    /\ ret[1].type = "S004"

---------------------------------------------------------------------------
(* snake_case_fct on the function definitions of a few names.              *)

MaxNameLen == 4

NameChars == {"d", "S", "_", "1"}

\* The identifiers: a digit does not start one.
Names ==
    {n \in UNION {[1..k -> NameChars] : k \in 1..MaxNameLen} :
        n[1] \notin DigitChars}

\* The node of "def name(): pass" on a line.
FunctionDefNode(name, lineno) ==
    AstNode("FunctionDef", lineno, << >>, name,
            << "d", "e", "f", " " >> \o name
                \o << "(", ")", ":", " ", "p", "a", "s", "s" >>,
            << >>, << >>, << >>, NoValue)

InitName ==
    /\ fs = << >>
    /\ argv_path = SinglePath
    /\ exclude_arg = << >>
    /\ issue_types = IssueType
    /\ pc = "snake_case_fct"
    /\ Idle
    /\ arg \in [lineno : 1..MaxLineNo, name : Names]
    /\ ret = << >>

\* analyzer.snake_case_fct(node)
SnakeCaseFct ==
    /\ pc = "snake_case_fct"
    /\ ret' = snake_case_fct(argv_path, FunctionDefNode(arg.name, arg.lineno))
    /\ pc' = "snake_case_fct_returned"
    /\ UNCHANGED << inputs, issue_types, analyzer, issues, pending, walked,
                    stdout, caller, previous, arg >>

NextName == SnakeCaseFct

SpecName == InitName /\ [][NextName]_vars

\* C11: snake_case_fct returns one issue S009, on the line of the
\* definition and with the name of the function as its argument, exactly
\* when the name holds an upper-case letter; it returns none for a name
\* that holds none.
C11_FunctionNameRule ==
    pc = "snake_case_fct_returned" =>
        ret = IF \E k \in 1..Len(arg.name) : arg.name[k] \in UpperChars
              THEN << CodeIssue(argv_path, arg.lineno, "S009", arg.name) >>
              ELSE << >>

\* dS_d, with its upper-case letter after the start, on line 2.
C11_Witness ==
    /\ pc = "snake_case_fct_returned"
    /\ arg.name = << "d", "S", "_", "d" >>
    /\ arg.lineno = 2
    /\ Len(ret) = 1
    /\ ret[1].str_arg = arg.name
    /\ ret[1].line = 2

---------------------------------------------------------------------------
(* A single file of assignments and function definitions is analyzed.      *)

MaxStatements == 3

StatementTexts == {ListLine, ConstLine, TwoArgsLine, DefLine}

StatementFiles ==
    {join_lines(lines) :
        lines \in UNION {[1..n -> StatementTexts] : n \in 0..MaxStatements}}

InitStatements ==
    /\ \E text \in StatementFiles :
         fs = (SinglePath :> [kind |-> "file", readable |-> TRUE,
                               codebase |-> text])
    /\ argv_path = SinglePath
    /\ exclude_arg = << >>
    /\ issue_types \in RequestedSets
    /\ pc = "analyze_single"
    /\ Idle
    /\ NothingApplied

SpecStatements == InitStatements /\ [][NextSingle]_vars

\* Node n is a child of node m of the tree.
IsChild(n, m) ==
    \E k \in 1..Len(tree.nodes[m].children) : tree.nodes[m].children[k] = n

\* The node that node n, not the Module, is a child of.
TreeParent(n) == CHOOSE m \in 1..Len(tree.nodes) : IsChild(n, m)

\* Node n is in the body of a function definition.
RECURSIVE InFunctionBody(_)
InFunctionBody(n) ==
    IF n = 1 THEN FALSE
    ELSE \/ tree.nodes[TreeParent(n)].kind = "FunctionDef"
         \/ InFunctionBody(TreeParent(n))

\* An issue S011 is reported for the assignment node n.
VariableFlagged(n) ==
    \E k \in 1..Len(found_issues) :
        /\ found_issues[k].type = "S011"
        /\ found_issues[k].line = tree.nodes[n].lineno

\* C12: when S011 is requested, the assignment of a name that is not in
\* snake_case is reported exactly when it is in the body of a function or
\* the value assigned is a list, a set or a dict; so X=[] in the module is
\* reported, X=1 in the module is not, X=1 in a function is.
C12_VariableNameRule ==
    (pc = "done" /\ "S011" \in issue_types) =>
        \A n \in 1..Len(tree.nodes) :
            tree.nodes[n].kind = "Assign" =>
                (VariableFlagged(n) <=>
                    /\ violating_names(name_targets(tree.nodes[n].targets))
                           # << >>
                    /\ \/ InFunctionBody(n)
                       \/ type(tree.nodes[n].value) \in mutable_types)

---------------------------------------------------------------------------
(* todo on the lines of a few characters.                                  *)

MaxTodoLen == 6

TodoChars == {"#", "t", "o", "d", "O"}

TodoLines == UNION {[1..n -> TodoChars] : n \in 0..MaxTodoLen}

InitTodo ==
    /\ fs = << >>
    /\ argv_path = SinglePath
    /\ exclude_arg = << >>
    /\ issue_types = IssueType
    /\ pc = "todo"
    /\ Idle
    /\ arg \in [line_no : 1..MaxLineNo, line : TodoLines]
    /\ ret = << >>

\* analyzer.todo(line_no, line)
Todo ==
    /\ pc = "todo"
    /\ ret' = todo_rule(argv_path, arg.line_no, arg.line)
    /\ pc' = "todo_returned"
    /\ UNCHANGED << inputs, issue_types, analyzer, issues, pending, walked,
                    stdout, caller, previous, arg >>

NextTodo == Todo

SpecTodo == InitTodo /\ [][NextTodo]_vars

\* The comment of the line: all that follows its first comment marker.
CommentPortion(line) ==
    IF Positions(line, "#") = {} THEN << >>
    ELSE SubSeq(line, Min(Positions(line, "#")) + 1, Len(line))

\* The text holds "todo", in any case of its letters.
HoldsTodo(text) ==
    \E k \in 1..(Len(text) - 3) :
        /\ text[k] \in {"t", "T"}
        /\ text[k + 1] \in {"o", "O"}
        /\ text[k + 2] \in {"d", "D"}
        /\ text[k + 3] \in {"o", "O"}

\* C13: todo returns an issue S005 for the line exactly when the comment
\* of the line, all the text after the first comment marker, holds "todo"
\* in any case of its letters; "todo" before the marker gives none.
C13_TodoRule ==
    pc = "todo_returned" =>
        ret = IF HoldsTodo(CommentPortion(arg.line))
              THEN << CodeIssue(argv_path, arg.line_no, "S005", None) >>
              ELSE << >>


\* How many times x is in the list.
Count(list, x) == Cardinality({k \in 1..Len(list) : list[k] = x})

\* The lists hold the same findings, each as many times.
IsPermutation(a, b) ==
    /\ Len(a) = Len(b)
    /\ \A k \in 1..Len(a) : Count(a, a[k]) = Count(b, a[k])

\* C14: no finding is lost or merged: a pass only appends to found_issues,
\* and the list get_issues returns, which analyze_single prints, is a
\* permutation of what the passes appended; two findings of one rule on one
\* line are two issues of the output.
C14_NeverCollapsed ==
    [][IF pc = "ast_walk" /\ todo = << >>
       THEN /\ IsPermutation(found_issues', found_issues)
            /\ stdout' = stdout \o print_issues(found_issues')
       ELSE /\ Len(found_issues) <= Len(found_issues')
            /\ SubSeq(found_issues', 1, Len(found_issues)) = found_issues
      ]_vars

\* The two arguments of def f(A, B) are reported, each by an issue S010 of
\* its own on the line of the definition.
C14_Witness ==
    /\ pc = "done"
    /\ \E j, k \in 1..Len(found_issues) :
           /\ j < k
           /\ found_issues[j].type = "S010"
           /\ found_issues[k].type = "S010"
           /\ found_issues[j].line = found_issues[k].line
           /\ found_issues[j].str_arg = << "A" >>
           /\ found_issues[k].str_arg = << "B" >>
    /\ \E j, k \in 1..Len(stdout) :
           /\ j # k
           /\ stdout[j].code = "S010" /\ stdout[j].msg_arg = << "A" >>
           /\ stdout[k].code = "S010" /\ stdout[k].msg_arg = << "B" >>
           /\ stdout[j].line = stdout[k].line


\* C15: when check_node is called on a node that is not the Module, the
\* parent of the node has been assigned already, in an earlier turn of the
\* loop, and it is the node of the tree the node is a child of: no rule
\* reads a node before the loop has come to its parent.
C15_ParentSetBeforeRules ==
    [][\A n \in 2..Len(tree.nodes) :
          checked' = Append(checked, n) =>
              /\ parent[n] # 0
              /\ IsChild(n, parent[n])
              /\ \A k \in 1..Len(todo) : todo[k] # parent[n]
      ]_vars

\* The assignment in the body of def F(A) has been checked: its parent is
\* the function definition, and S011 reports its target.
C15_Witness ==
    /\ pc = "ast_walk"
    /\ \E k \in 1..Len(checked) :
           /\ tree.nodes[checked[k]].kind = "Assign"
           /\ parent[checked[k]] # 0
           /\ tree.nodes[parent[checked[k]]].kind = "FunctionDef"
           /\ \E j \in 1..Len(found_issues) :
                  /\ found_issues[j].type = "S011"
                  /\ found_issues[j].line = tree.nodes[checked[k]].lineno

---------------------------------------------------------------------------
(* The selection of rules, in the whole program.                           *)

\* The rules the --exclude argument names.
Excluded ==
    {member_named(upper(strip(Listed(exclude_arg)[k]))) :
        k \in {j \in 1..Len(Listed(exclude_arg)) :
                  Known(Listed(exclude_arg)[j])}}

\* The rule of the issue was applied to an input of its own kind: a line
\* rule to the line of the issue, S006 to the file, a node rule to a node
\* on the line of the issue of a type the rule is registered under.
OwnGranularity(i) ==
    LET text == fs[i.path].codebase
        lines == splitlines(text)
        nodes == ast_parse(text).nodes
    IN  IF i.type \in single_line_keys
        THEN /\ i.line \in 1..Len(lines)
             /\ single_line_analyzer(i.type, i.path, i.line, lines[i.line])
                    = << i >>
        ELSE IF i.type \in bulk_keys
        THEN \E k \in 1..Len(blank_lines(i.path, text)) :
                 blank_lines(i.path, text)[k] = i
        ELSE \E n \in 1..Len(nodes) :
                 /\ i.type \in ast_analyzer_keys(nodes[n].kind)
                 /\ nodes[n].lineno = i.line

=============================================================================
